---- MODULE Spec2Model ----
(***************************************************************************)
(* The image transcoding pipeline of sks-image-compressor: the preset      *)
(* resolver (lib/presets.ts), the pipeline builder and the bounded quality *)
(* search (lib/imageProcessor.ts) and the three HTTP routes that call      *)
(* them.  The codec engine (sharp) is the environment: it answers a        *)
(* metadata call with the input's native format and a render call with an  *)
(* encoded buffer of some size, or it throws.                              *)
(***************************************************************************)
EXTENDS Integers, Sequences, FiniteSets, TLC

VARIABLES
  registry,       \* the `presets` array of the process that serves the requests
  uiOptions,      \* request -> the `options` state of the page that builds the request
  settled,        \* request -> number of codec calls that have completed or failed
  codecLaw,       \* what the codec engine guarantees: "any" | "deterministic" | "monotone"
  memo,           \* the outputs the codec has produced so far: <<file, plan>> -> size
  handler,        \* request -> the caller: "express" | "next" | "nextLegacy" | "direct"
  request,        \* request -> [file, payload]: the multipart form as received
  phase,          \* request -> position of the caller: "arrived" | "processing" | "responded"
  response,       \* request -> <<>> or <<[status, contentType, body]>>
  mergedOptions,  \* request -> the options processImage was called with
  pc,             \* request -> position of processImage (the await it is suspended at)
  pending,        \* request -> <<>> or <<the codec call that is outstanding>>
  calls,          \* request -> the qualities passed to render, in call order
  codecCalls,     \* request -> number of codec calls issued (metadata and renders)
  failures,       \* request -> number of codec calls that rejected
  format,         \* request -> processImage's local `format`
  qualityCap,     \* request -> processImage's local `qualityCap`
  targetBytes,    \* request -> processImage's local `targetBytes`
  low,            \* request -> processImage's local `low`
  high,           \* request -> processImage's local `high`
  bestQuality,    \* request -> processImage's local `bestQuality`
  bestResult,     \* request -> processImage's local `bestResult`: <<>> or <<ProcessResult>>
  i,              \* request -> the loop counter of the search
  result          \* request -> <<>> or <<the ProcessResult processImage returned>>

routeVars  == <<handler, request, phase, response>>
searchVars == <<format, qualityCap, targetBytes, low, high, bestQuality, bestResult, i>>
callVars   == <<pc, pending, calls, codecCalls>>
vars == <<registry, uiOptions, settled, codecLaw, memo, failures, routeVars, mergedOptions, callVars, searchVars, result>>

(***************************************************************************)
(* Bounds of the model.                                                    *)
(***************************************************************************)
\* Encoded sizes the codec may report: 0, 1024, ..., MaxSizeKB * 1024 bytes.
MaxSizeKB == 2
\* Explicit targetSizeKB values of a request: 0 (falsy) and 1..MaxTargetKB.
MaxTargetKB == 1

(***************************************************************************)
(* Program constants.                                                      *)
(***************************************************************************)
DEFAULT_QUALITY == 85
MIN_QUALITY == 10
MAX_QUALITY == 100
\* for (let i = 0; i < 6; i += 1); the variants loop once more, once less.
IterationsOffByOne == 6 + 1
IterationsOneShort == 6 - 1
Iterations == 6
\* const targetBytes = options.targetSizeKB * 1024
BytesPerKB == 1024
\* const maxSize = 25 * 1024 * 1024 and multer's limits.fileSize, in MB
MaxUploadMB == 25

(***************************************************************************)
(* Optional values.  A property of a JavaScript object is missing, present *)
(* with the value undefined, or present with a value.                      *)
(***************************************************************************)
Missing == <<>>
Undef == <<0, 0>>
Val(v) == <<v>>
HasValue(x) == Len(x) = 1
\* `x ?? d`: d when x is undefined (a missing property reads as undefined).
Nullish(x) == ~HasValue(x)
\* `key in object`, which is what object spread copies.
Present(x) == x # Missing
Get(x) == x[1]

Fields ==
  {"format", "quality", "targetSizeKB", "width", "height",
   "keepAspectRatio", "stripMetadata", "presetId"}

EmptyOptions == [f \in Fields |-> Missing]

\* An options object given by the properties it sets.
Options(set) == [f \in Fields |-> IF f \in DOMAIN set THEN set[f] ELSE Missing]

(***************************************************************************)
(* lib/presets.ts                                                          *)
(***************************************************************************)
\* The archive preset's format: "png" in lib/presets.ts, "tiff" in the
\* second copy of the registry.
ArchiveFormats == {"png", "tiff"}

presets(archiveFormat) ==
  << [id |-> "size-first",
      options |-> Options([quality |-> Val(70), targetSizeKB |-> Val(300),
                           stripMetadata |-> Val(TRUE)])],
     [id |-> "quality-first",
      options |-> Options([quality |-> Val(95), stripMetadata |-> Val(FALSE)])],
     [id |-> "balanced",
      options |-> Options([quality |-> Val(85), stripMetadata |-> Val(TRUE)])],
     [id |-> "thumbnail",
      options |-> Options([width |-> Val(320), height |-> Val(320),
                           keepAspectRatio |-> Val(TRUE), quality |-> Val(70),
                           stripMetadata |-> Val(TRUE)])],
     [id |-> "web-optimized",
      options |-> Options([format |-> Val("webp"), quality |-> Val(75),
                           targetSizeKB |-> Val(400), stripMetadata |-> Val(TRUE)])],
     [id |-> "archive",
      options |-> Options([format |-> Val(archiveFormat), quality |-> Val(100),
                           stripMetadata |-> Val(FALSE)])],
     [id |-> "format-converter",
      options |-> Options([quality |-> Val(100), stripMetadata |-> Val(FALSE)])] >>

\* export const listPresets = () => presets: the array itself.
listPresets == registry

\* presets.find((p) => p.id === presetId): the first match, or nothing.
FindPreset(reg, id) ==
  LET hits == {k \in 1..Len(reg) : reg[k].id = id}
  IN  IF hits = {} THEN <<>>
      ELSE <<reg[CHOOSE k \in hits : \A j \in hits : k <= j]>>

\* { ...a, ...b }: every own property of b, then those of a that b lacks.
\* The variant spreads in the other order, { ...b, ...a }.
SpreadWrongOrder(a, b) == [f \in Fields |-> IF Present(a[f]) THEN a[f] ELSE b[f]]
Spread(a, b) == [f \in Fields |-> IF Present(b[f]) THEN b[f] ELSE a[f]]

\* `!presetId`: undefined and the empty string are falsy.
FalsyString(x) == ~HasValue(x) \/ Get(x) = ""

resolvePresetOptions(reg, presetId, options) ==
  IF FalsyString(presetId) THEN options
  ELSE LET preset == FindPreset(reg, Get(presetId))
       IN  IF preset = <<>> THEN options
           ELSE Spread(preset[1].options, options)

\* What a call of resolvePresetOptions leaves in `presets` and in the object
\* it was given: it reads both (find, spread) and writes the merge to a new
\* object.  The variants merge in place, Object.assign(preset.options,
\* options) and Object.assign(options, preset.options).
presetsAfterAssign(reg, presetId, options) ==
  IF FalsyString(presetId) \/ FindPreset(reg, Get(presetId)) = <<>> THEN reg
  ELSE [k \in 1..Len(reg) |->
          IF reg[k].id = Get(presetId)
          THEN [reg[k] EXCEPT !.options = Spread(@, options)]
          ELSE reg[k]]
presetsAfterResolve(reg, presetId, options) == reg

optionsAfterAssign(reg, presetId, options) ==
  IF FalsyString(presetId) \/ FindPreset(reg, Get(presetId)) = <<>> THEN options
  ELSE Spread(options, FindPreset(reg, Get(presetId))[1].options)
optionsAfterResolve(reg, presetId, options) == options

(***************************************************************************)
(* lib/imageProcessor.ts: the pure helpers.                                *)
(***************************************************************************)
SupportedFormat == {"jpeg", "png", "webp", "gif", "avif", "tiff", "svg"}

\* The variant takes gif for a quality-driven format too.
isQualityDrivenWithGif(fmt) == fmt \in {"jpeg", "png", "webp", "gif", "avif", "tiff"}
isQualityDrivenFormat(fmt) == fmt \in {"jpeg", "png", "webp", "avif", "tiff"}

\* String.prototype.toLowerCase on the format names the model draws.
ToLowerCase(s) ==
  CASE s = "JPG"  -> "jpg"
    [] s = "JPEG" -> "jpeg"
    [] s = "PNG"  -> "png"
    [] OTHER      -> s

formatFromMetadata(fmt) ==
  IF FalsyString(fmt) THEN "jpeg"
  ELSE LET normalized == ToLowerCase(Get(fmt))
       IN  CASE normalized \in {"jpg", "jpeg"} -> "jpeg"
             [] normalized = "png"  -> "png"
             [] normalized = "webp" -> "webp"
             [] normalized = "gif"  -> "gif"
             [] normalized = "avif" -> "avif"
             [] normalized = "tiff" -> "tiff"
             [] normalized = "svg"  -> "svg"
             [] OTHER -> "jpeg"

\* The encoder settings applyFormat selects; svg adds no encoder, and gif's
\* encoder is not given the quality.
applyFormat(fmt, quality) ==
  CASE fmt = "jpeg" -> [encoder |-> "jpeg", quality |-> Val(quality)]
    [] fmt = "png"  -> [encoder |-> "png", quality |-> Val(quality)]
    [] fmt = "webp" -> [encoder |-> "webp", quality |-> Val(quality)]
    [] fmt = "gif"  -> [encoder |-> "gif", quality |-> Missing]
    [] fmt = "avif" -> [encoder |-> "avif", quality |-> Val(quality)]
    [] fmt = "tiff" -> [encoder |-> "tiff", quality |-> Val(quality)]
    [] fmt = "svg"  -> [encoder |-> "none", quality |-> Missing]
    [] OTHER        -> [encoder |-> "jpeg", quality |-> Val(quality)]

\* `x || y` and Boolean(...) on optional numbers: 0 and undefined are falsy.
FalsyNumber(x) == ~HasValue(x) \/ Get(x) = 0

\* A variant that resizes whether or not a dimension was asked for.
buildPipelineAlwaysResizes(options, quality, fmt) ==
  [resize |-> Val([width |-> options.width, height |-> options.height,
                   fit |-> IF options.keepAspectRatio = Val(FALSE)
                           THEN "fill" ELSE "inside",
                   withoutEnlargement |-> TRUE]),
   withMetadata |-> (options.stripMetadata = Val(FALSE)),
   output |-> applyFormat(fmt, quality)]

\* A variant that keeps the metadata unless told to strip it.
buildPipelineKeepsByDefault(options, quality, fmt) ==
  [resize |-> IF ~(FalsyNumber(options.width) /\ FalsyNumber(options.height))
              THEN Val([width |-> options.width, height |-> options.height,
                        fit |-> IF options.keepAspectRatio = Val(FALSE)
                                THEN "fill" ELSE "inside",
                        withoutEnlargement |-> TRUE])
              ELSE Missing,
   withMetadata |-> (options.stripMetadata # Val(TRUE)),
   output |-> applyFormat(fmt, quality)]

\* The transform plan: optional resize, metadata policy, encoder.
buildPipeline(options, quality, fmt) ==
  LET resizeNeeded == ~(FalsyNumber(options.width) /\ FalsyNumber(options.height))
  IN  [resize |-> IF resizeNeeded
                  THEN Val([width |-> options.width, height |-> options.height,
                            fit |-> IF options.keepAspectRatio = Val(FALSE)
                                    THEN "fill" ELSE "inside",
                            withoutEnlargement |-> TRUE])
                  ELSE Missing,
       withMetadata |-> (options.stripMetadata = Val(FALSE)),
       output |-> applyFormat(fmt, quality)]

Max(a, b) == IF a >= b THEN a ELSE b
Min(a, b) == IF a <= b THEN a ELSE b
\* Math.min(Math.max(qualityBase, MIN_QUALITY), MAX_QUALITY); the variant
\* forgets the lower bound.
ClampNoFloor(q) == Min(q, MAX_QUALITY)
Clamp(q) == Min(Max(q, MIN_QUALITY), MAX_QUALITY)

\* Math.round((low + high) / 2) on non-negative integers: halves round up.
RoundHalf(sum) == (sum + 1) \div 2

\* Math.abs
Abs(x) == IF x < 0 THEN -x ELSE x

(***************************************************************************)
(* The codec engine (sharp), as processImage uses it.                      *)
(***************************************************************************)
Sizes == {k * BytesPerKB : k \in 0..MaxSizeKB}

\* Formats sharp's metadata() reports for an input; AVIF input reads "heif".
NativeFormats == {"jpeg", "png", "gif", "svg", "heif"}

\* The format sharp encodes to when the plan names no encoder: the input's,
\* or png for an input it cannot write (SVG).
DefaultOutput(file) ==
  IF HasValue(file.native) /\ Get(file.native) \in {"jpeg", "png", "webp", "gif", "tiff", "heif"}
  THEN Get(file.native) ELSE "png"

\* info.format of toBuffer's answer.
ReportedFormat(file, plan) ==
  IF plan.output.encoder = "none" THEN DefaultOutput(file)
  ELSE IF plan.output.encoder = "avif" THEN "heif"
  ELSE plan.output.encoder

\* The nearest integer to a / b, and never less than one pixel.
Nearest(a, b) == Max(1, (2 * a + b) \div (2 * b))

\* The dimensions sharp resizes a w x h input to.  It shrinks each axis by a
\* factor: input over target where a target is given; fit "inside" takes the
\* larger of the two factors for both axes (and the given one when only one
\* is), fit "fill" keeps them apart; withoutEnlargement raises a factor
\* below one to one.  A factor is kept as the fraction num / den.  (sharp
\* rejects a resize whose width or height is given and not a positive
\* integer; the requests drawn carry no such resize.)
ResizedTo(w, h, resize) ==
  LET given(x) == HasValue(x) /\ Get(x) > 0
      hx == IF given(resize.width) THEN <<w, Get(resize.width)>> ELSE <<1, 1>>
      vy == IF given(resize.height) THEN <<h, Get(resize.height)>> ELSE <<1, 1>>
      larger(f, g) == IF f[1] * g[2] >= g[1] * f[2] THEN f ELSE g
      both == given(resize.width) /\ given(resize.height)
      hshrink == IF resize.fit = "fill" \/ ~given(resize.height) THEN hx
                 ELSE IF both THEN larger(hx, vy) ELSE vy
      vshrink == IF resize.fit = "fill" \/ ~given(resize.width) THEN vy
                 ELSE IF both THEN larger(hx, vy) ELSE hx
      down(f) == IF resize.withoutEnlargement /\ f[1] < f[2] THEN <<1, 1>> ELSE f
  IN  [width |-> Nearest(w * down(hshrink)[2], down(hshrink)[1]),
       height |-> Nearest(h * down(vshrink)[2], down(vshrink)[1])]

\* info.width and info.height of toBuffer's answer.
ReportedSize(file, plan) ==
  IF HasValue(plan.resize) THEN ResizedTo(file.width, file.height, Get(plan.resize))
  ELSE [width |-> file.width, height |-> file.height]

\* Two plans that differ at most in the encoder's quality.
SameButQuality(p1, p2) ==
  /\ p1.resize = p2.resize
  /\ p1.withMetadata = p2.withMetadata
  /\ p1.output.encoder = p2.output.encoder
  /\ HasValue(p1.output.quality) /\ HasValue(p2.output.quality)

\* The sizes the codec may answer a render of `plan` on `file` with.  A
\* deterministic codec repeats what it answered before for the same input;
\* a monotone one, besides, never encodes a higher quality to fewer bytes.
CodecSizes(file, plan) ==
  LET key == <<file, plan>>
      Consistent(s) ==
        \A k \in DOMAIN memo :
          (k[1] = file /\ SameButQuality(k[2], plan)) =>
            /\ Get(k[2].output.quality) <= Get(plan.output.quality) => memo[k] <= s
            /\ Get(k[2].output.quality) >= Get(plan.output.quality) => memo[k] >= s
  IN  CASE codecLaw = "any" -> Sizes
        [] codecLaw = "deterministic" ->
             IF key \in DOMAIN memo THEN {memo[key]} ELSE Sizes
        [] OTHER ->
             IF key \in DOMAIN memo THEN {memo[key]}
             ELSE {s \in Sizes : Consistent(s)}

\* The codec's record of what it produced.
Remember(file, plan, size) ==
  IF codecLaw = "any" THEN memo ELSE (<<file, plan>> :> size) @@ memo

(***************************************************************************)
(* lib/imageProcessor.ts: render and processImage.                         *)
(***************************************************************************)
FileOf(r) == Get(request[r].file)

\* A variant that keeps the options in a variable of the module, which the
\* request that came last has set.
RenderCallSharedOptions(r, quality, fmt) ==
  LET last == CHOOSE x \in DOMAIN mergedOptions : \A y \in DOMAIN mergedOptions : y <= x
  IN  [op |-> "render", quality |-> quality,
       plan |-> buildPipeline(mergedOptions[last], quality, fmt)]

\* The codec call render() makes: the plan, and the quality it was given.
RenderCall(r, quality, fmt) ==
  [op |-> "render", quality |-> quality,
   plan |-> buildPipeline(mergedOptions[r], quality, fmt)]

\* What render() returns once toBuffer has answered with `size` bytes.
RenderResult(r, call, size) ==
  [buffer |-> [plan |-> call.plan, bytes |-> size],
   info |-> [format |-> ReportedFormat(FileOf(r), call.plan), size |-> size,
             width |-> ReportedSize(FileOf(r), call.plan).width,
             height |-> ReportedSize(FileOf(r), call.plan).height]]

\* The codec call a request awaits settles (fulfils or rejects).
CallCompletes(r) == settled' = [settled EXCEPT ![r] = @ + 1]

\* A variant that starts the render a second time without awaiting the first.
AwaitRenderTwice(r, at, quality, fmt) ==
  /\ pc' = [pc EXCEPT ![r] = at]
  /\ pending' = [pending EXCEPT ![r] = Val(RenderCall(r, quality, fmt))]
  /\ calls' = [calls EXCEPT ![r] = Append(Append(@, quality), quality)]
  /\ codecCalls' = [codecCalls EXCEPT ![r] = @ + 2]

\* Suspend at an await on a render at `quality`.
AwaitRender(r, at, quality, fmt) ==
  /\ pc' = [pc EXCEPT ![r] = at]
  /\ pending' = [pending EXCEPT ![r] = Val(RenderCall(r, quality, fmt))]
  /\ calls' = [calls EXCEPT ![r] = Append(@, quality)]
  /\ codecCalls' = [codecCalls EXCEPT ![r] = @ + 1]

\* return: the promise processImage gave resolves.
Return(r, value) ==
  /\ pc' = [pc EXCEPT ![r] = "returned"]
  /\ pending' = [pending EXCEPT ![r] = Missing]
  /\ result' = [result EXCEPT ![r] = Val(value)]
  /\ UNCHANGED <<calls, codecCalls>>

\* processImage(buffer, options) up to its first await: sharp(buffer).metadata().
CallProcessImage(r, options) ==
  /\ mergedOptions' = [mergedOptions EXCEPT ![r] = options]
  /\ pc' = [pc EXCEPT ![r] = "metadata"]
  /\ pending' = [pending EXCEPT ![r] = Val([op |-> "metadata"])]
  /\ codecCalls' = [codecCalls EXCEPT ![r] = @ + 1]
  /\ UNCHANGED calls

\* let high = MAX_QUALITY; the variant searches below the requested quality.
HighFromRequested(cap) == cap
InitialHigh(cap) == MAX_QUALITY

\* metadata() answers: resolve format and quality, then the single pass or
\* the initial render of the search.
MetadataReturn(r) ==
  /\ pc[r] = "metadata"
  /\ LET options == mergedOptions[r]
         fmt == IF Nullish(options.format)
                THEN formatFromMetadata(FileOf(r).native)
                ELSE Get(options.format)
         qualityBase == IF Nullish(options.quality) THEN DEFAULT_QUALITY
                        ELSE Get(options.quality)
         cap == Clamp(qualityBase)
     IN  /\ format' = [format EXCEPT ![r] = fmt]
         /\ qualityCap' = [qualityCap EXCEPT ![r] = cap]
         /\ IF ~isQualityDrivenFormat(fmt) \/ FalsyNumber(options.targetSizeKB)
            THEN /\ AwaitRender(r, "single", cap, fmt)
                 /\ UNCHANGED <<targetBytes, low, high, bestQuality>>
            ELSE /\ targetBytes' = [targetBytes EXCEPT ![r] = Get(options.targetSizeKB) * BytesPerKB]
                 /\ low' = [low EXCEPT ![r] = MIN_QUALITY]
                 /\ high' = [high EXCEPT ![r] = InitialHigh(cap)]
                 /\ bestQuality' = [bestQuality EXCEPT ![r] = cap]
                 /\ AwaitRender(r, "initial", cap, fmt)
  /\ CallCompletes(r)
  /\ UNCHANGED <<registry, uiOptions, codecLaw, failures, memo, routeVars, mergedOptions, bestResult, i, result>>

\* The single pass: return render(buffer, options, qualityCap, format).
SingleRenderReturn(r) ==
  /\ pc[r] = "single"
  /\ \E size \in CodecSizes(FileOf(r), Get(pending[r]).plan) :
       /\ memo' = Remember(FileOf(r), Get(pending[r]).plan, size)
       /\ Return(r, RenderResult(r, Get(pending[r]), size))
  /\ CallCompletes(r)
  /\ UNCHANGED <<registry, uiOptions, codecLaw, failures, routeVars, mergedOptions, searchVars>>

\* Math.round(low + high / 2): the division binding before the sum.
MidPrecedence(lo, hi) == lo + RoundHalf(hi)

\* const mid = Math.round((low + high) / 2)
Mid(lo, hi) == RoundHalf(lo + hi)

\* let bestResult = await render(...): the initial render answers, and the
\* loop's first probe is issued.
InitialRenderReturn(r) ==
  /\ pc[r] = "initial"
  /\ \E size \in CodecSizes(FileOf(r), Get(pending[r]).plan) :
       /\ memo' = Remember(FileOf(r), Get(pending[r]).plan, size)
       /\ bestResult' = [bestResult EXCEPT ![r] = Val(RenderResult(r, Get(pending[r]), size))]
  /\ i' = [i EXCEPT ![r] = 0]
  /\ AwaitRender(r, "probe", Mid(low[r], high[r]), format[r])
  /\ CallCompletes(r)
  /\ UNCHANGED <<registry, uiOptions, codecLaw, failures, routeVars, mergedOptions, result>>
  /\ UNCHANGED <<format, qualityCap, targetBytes, low, high, bestQuality>>

\* if (diff < bestDiff); the variants let a tie replace the best, compare
\* the wrong way round, or keep whatever was probed last.
ImprovesOrTies(diff, bestDiff) == diff <= bestDiff
Worsens(diff, bestDiff) == diff > bestDiff
AlwaysReplace(diff, bestDiff) == TRUE
Improves(diff, bestDiff) == diff < bestDiff

\* if (result.info.size > targetBytes); the variant narrows the wrong bound.
TooSmall(size, target) == size < target
TooBig(size, target) == size > target

\* bestQuality = mid inside the if; the variant assigns it outside.
LastQuality(better, mid, best) == mid
KeptQuality(better, mid, best) == IF better THEN mid ELSE best

\* if (bestQuality !== qualityCap); the variant always makes the final pass.
AlwaysFinalPass(best, cap) == TRUE
NeedsFinalPass(best, cap) == best # cap

\* A probe answers: keep the closer candidate, narrow the bounds, and go on
\* to the next probe, to the final pass, or return.
ProbeReturn(r) ==
  /\ pc[r] = "probe"
  /\ \E size \in CodecSizes(FileOf(r), Get(pending[r]).plan) :
       LET mid == Get(pending[r]).quality
           probe == RenderResult(r, Get(pending[r]), size)
           diff == Abs(probe.info.size - targetBytes[r])
           bestDiff == Abs(Get(bestResult[r]).info.size - targetBytes[r])
           better == Improves(diff, bestDiff)
           newBest == IF better THEN probe ELSE Get(bestResult[r])
           newQuality == KeptQuality(better, mid, bestQuality[r])
           newLow == IF TooBig(probe.info.size, targetBytes[r]) THEN low[r] ELSE mid + 1
           newHigh == IF TooBig(probe.info.size, targetBytes[r]) THEN mid - 1 ELSE high[r]
       IN  /\ memo' = Remember(FileOf(r), Get(pending[r]).plan, size)
           /\ bestResult' = [bestResult EXCEPT ![r] = Val(newBest)]
           /\ bestQuality' = [bestQuality EXCEPT ![r] = newQuality]
           /\ low' = [low EXCEPT ![r] = newLow]
           /\ high' = [high EXCEPT ![r] = newHigh]
           /\ i' = [i EXCEPT ![r] = @ + 1]
           /\ IF i[r] + 1 < Iterations
              THEN /\ AwaitRender(r, "probe", Mid(newLow, newHigh), format[r])
                   /\ UNCHANGED result
              ELSE IF NeedsFinalPass(newQuality, qualityCap[r])
              THEN /\ AwaitRender(r, "final", newQuality, format[r])
                   /\ UNCHANGED result
              ELSE Return(r, newBest)
  /\ CallCompletes(r)
  /\ UNCHANGED <<registry, uiOptions, codecLaw, failures, routeVars, mergedOptions, format, qualityCap, targetBytes>>

\* Final pass with the best quality found, and return.
FinalRenderReturn(r) ==
  /\ pc[r] = "final"
  /\ \E size \in CodecSizes(FileOf(r), Get(pending[r]).plan) :
       LET final == RenderResult(r, Get(pending[r]), size)
       IN  /\ memo' = Remember(FileOf(r), Get(pending[r]).plan, size)
           /\ bestResult' = [bestResult EXCEPT ![r] = Val(final)]
           /\ Return(r, final)
  /\ CallCompletes(r)
  /\ UNCHANGED <<registry, uiOptions, codecLaw, failures, routeVars, mergedOptions>>
  /\ UNCHANGED <<format, qualityCap, targetBytes, low, high, bestQuality, i>>

\* A variant that falls back to the best candidate held when a call rejects.
RejectFallsBack(r) ==
  IF HasValue(bestResult[r])
  THEN Return(r, Get(bestResult[r])) /\ UNCHANGED searchVars
  ELSE /\ pc' = [pc EXCEPT ![r] = "threw"]
       /\ pending' = [pending EXCEPT ![r] = Missing]
       /\ UNCHANGED <<calls, codecCalls, searchVars, result>>

\* A variant that issues the rejected call again.
RejectRetries(r) ==
  /\ codecCalls' = [codecCalls EXCEPT ![r] = @ + 1]
  /\ calls' = [calls EXCEPT ![r] =
                 IF Get(pending[r]).op = "render"
                 THEN Append(@, Get(pending[r]).quality) ELSE @]
  /\ UNCHANGED <<pc, pending, searchVars, result>>

\* What processImage does when the call it awaits rejects: no await is
\* inside a try, so the promise it gave rejects and nothing more is called.
Reject(r) ==
  /\ pc' = [pc EXCEPT ![r] = "threw"]
  /\ pending' = [pending EXCEPT ![r] = Missing]
  /\ UNCHANGED <<calls, codecCalls, searchVars, result>>

\* The outstanding codec call (metadata or a render) fails.
CodecThrow(r) ==
  /\ pc[r] \in {"metadata", "single", "initial", "probe", "final"}
  /\ failures' = [failures EXCEPT ![r] = @ + 1]
  /\ Reject(r)
  /\ CallCompletes(r)
  /\ UNCHANGED <<registry, uiOptions, codecLaw, memo, routeVars, mergedOptions>>

(***************************************************************************)
(* The callers: the Express route (server/src/index.ts), the two versions  *)
(* of the Next.js route (app/api/process/route.ts), and a direct call.     *)
(***************************************************************************)
\* JSON.parse of the "options" form field.  The field's text is malformed,
\* the literal null, a number, or an options object.
JSONParse(text) ==
  CASE text.kind = "malformed" -> [threw |-> TRUE, kind |-> "none", object |-> EmptyOptions]
    [] text.kind = "null"      -> [threw |-> FALSE, kind |-> "null", object |-> EmptyOptions]
    [] text.kind = "scalar"    -> [threw |-> FALSE, kind |-> "scalar", object |-> EmptyOptions]
    [] OTHER                   -> [threw |-> FALSE, kind |-> "object", object |-> text.object]

\* optionsStr ? JSON.parse(optionsStr) : {}
ParseOptions(payload) ==
  IF HasValue(payload) THEN JSONParse(Get(payload))
  ELSE [threw |-> FALSE, kind |-> "object", object |-> EmptyOptions]

\* parsedOptions.presetId throws on null; every property of a number reads
\* undefined, so a number behaves as the empty options object from here on.
ReadThrows(parsed) == parsed.threw \/ parsed.kind = "null"

\* The registry each caller imports, as declared.
RegistryOf(h) ==
  IF h \in {"express", "expressPresets"} THEN presets("tiff") ELSE presets("png")

\* resolvePresetOptions(parsedOptions.presetId, parsedOptions)
Merge(h, parsed) == resolvePresetOptions(registry, parsed.object.presetId, parsed.object)

\* What that call leaves in the registry.
MergeEffect(parsed) ==
  registry' = presetsAfterResolve(registry, parsed.object.presetId, parsed.object)

\* file.size > maxSize
TooLarge(file) == HasValue(file) /\ Get(file).sizeMB > MaxUploadMB

Respond(r, status, contentType, body) ==
  /\ phase' = [phase EXCEPT ![r] = "responded"]
  /\ response' = [response EXCEPT ![r] =
                    Val([status |-> status, contentType |-> contentType, body |-> body])]
  /\ UNCHANGED <<handler, request>>

Idle == UNCHANGED <<registry, mergedOptions, callVars>>

Enter(r, options) ==
  /\ phase' = [phase EXCEPT ![r] = "processing"]
  /\ UNCHANGED <<handler, request, response>>
  /\ CallProcessImage(r, options)

\* app.post("/api/process", upload.single("file"), ...): multer hands an
\* upload over its fileSize limit to Express's error handler (500) before
\* the route runs.
ExpressPost(r) ==
  /\ handler[r] = "express" /\ phase[r] = "arrived"
  /\ LET parsed == ParseOptions(request[r].payload)
     IN  IF TooLarge(request[r].file)
         THEN Respond(r, 500, "text/html", Missing) /\ Idle
         ELSE IF ~HasValue(request[r].file)
         THEN Respond(r, 400, "application/json", Missing) /\ Idle
         ELSE IF ReadThrows(parsed)
         THEN Respond(r, 500, "application/json", Missing) /\ Idle
         ELSE Enter(r, Merge("express", parsed)) /\ MergeEffect(parsed)
  /\ UNCHANGED <<uiOptions, settled, codecLaw, failures, memo, searchVars, result>>

\* app/api/process/route.ts, with the size check and the guarded parse.
NextPost(r) ==
  /\ handler[r] = "next" /\ phase[r] = "arrived"
  /\ LET parsed == ParseOptions(request[r].payload)
     IN  IF ~HasValue(request[r].file)
         THEN Respond(r, 400, "application/json", Missing) /\ Idle
         ELSE IF TooLarge(request[r].file)
         THEN Respond(r, 400, "application/json", Missing) /\ Idle
         ELSE IF parsed.threw
         THEN Respond(r, 400, "application/json", Missing) /\ Idle
         ELSE IF ReadThrows(parsed)
         THEN Respond(r, 500, "application/json", Missing) /\ Idle
         ELSE Enter(r, Merge("next", parsed)) /\ MergeEffect(parsed)
  /\ UNCHANGED <<uiOptions, settled, codecLaw, failures, memo, searchVars, result>>

\* The earlier version of the Next.js route: one try around everything.
NextLegacyPost(r) ==
  /\ handler[r] = "nextLegacy" /\ phase[r] = "arrived"
  /\ LET parsed == ParseOptions(request[r].payload)
     IN  IF ~HasValue(request[r].file)
         THEN Respond(r, 400, "application/json", Missing) /\ Idle
         ELSE IF ReadThrows(parsed)
         THEN Respond(r, 500, "application/json", Missing) /\ Idle
         ELSE Enter(r, Merge("nextLegacy", parsed)) /\ MergeEffect(parsed)
  /\ UNCHANGED <<uiOptions, settled, codecLaw, failures, memo, searchVars, result>>

\* app.get("/api/presets"): res.json(listPresets()).
ExpressGetPresets(r) ==
  /\ handler[r] = "expressPresets" /\ phase[r] = "arrived"
  /\ Respond(r, 200, "application/json", Val(listPresets)) /\ Idle
  /\ UNCHANGED <<uiOptions, settled, codecLaw, failures, memo, searchVars, result>>

\* app/api/presets/route.ts: GET returns NextResponse.json(listPresets()).
NextGetPresets(r) ==
  /\ handler[r] = "nextPresets" /\ phase[r] = "arrived"
  /\ Respond(r, 200, "application/json", Val(listPresets)) /\ Idle
  /\ UNCHANGED <<uiOptions, settled, codecLaw, failures, memo, searchVars, result>>

\* const extension = result.info.format || "jpg"
Extension(res) == IF res.info.format = "" THEN "jpg" ELSE res.info.format

\* A variant whose catch block sends the best candidate the search held.
SettleSendsBest(r) ==
  /\ phase[r] = "processing"
  /\ pc[r] \in {"returned", "threw"}
  /\ IF pc[r] = "returned"
     THEN Respond(r, 200, Extension(Get(result[r])), Val(Get(result[r]).buffer))
     ELSE IF HasValue(bestResult[r])
     THEN Respond(r, 200, Extension(Get(bestResult[r])), Val(Get(bestResult[r]).buffer))
     ELSE Respond(r, 500, "application/json", Missing)
  /\ UNCHANGED <<registry, uiOptions, settled, codecLaw, failures, memo, mergedOptions, callVars, searchVars, result>>

\* After `await processImage(...)`: send the buffer, or the catch block's
\* 500 when the promise rejected.
Settle(r) ==
  /\ phase[r] = "processing"
  /\ pc[r] \in {"returned", "threw"}
  /\ IF pc[r] = "returned"
     THEN Respond(r, 200, Extension(Get(result[r])), Val(Get(result[r]).buffer))
     ELSE Respond(r, 500, "application/json", Missing)
  /\ UNCHANGED <<registry, uiOptions, settled, codecLaw, failures, memo, mergedOptions, callVars, searchVars, result>>

ExpressSettle(r) == handler[r] = "express" /\ Settle(r)
NextSettle(r) == handler[r] = "next" /\ Settle(r)
NextLegacySettle(r) == handler[r] = "nextLegacy" /\ Settle(r)

\* A caller of the library itself: processImage(buffer, options), one call
\* after the other.
DirectCall(r) ==
  /\ handler[r] = "direct" /\ phase[r] = "arrived"
  /\ \A earlier \in DOMAIN pc : earlier < r => pc[earlier] \in {"returned", "threw"}
  /\ Enter(r, Get(request[r].payload).object)
  /\ UNCHANGED <<registry, uiOptions, settled, codecLaw, failures, memo, searchVars, result>>

(***************************************************************************)
(* Requests and initial states.                                            *)
(***************************************************************************)
\* An upload: the format sharp detects, its size in MB and its pixel size.
Picture(native, sizeMB, w, h) ==
  Val([native |-> native, sizeMB |-> sizeMB, width |-> w, height |-> h])
File(native, sizeMB) == Picture(native, sizeMB, 400, 300)
Photo == File(Val("jpeg"), 1)

\* Requested qualities: missing, below, inside and above the clamp range.
QualityInputs ==
  {Missing, Val(MIN_QUALITY - 5), Val(55), Val(MAX_QUALITY + 50)}

TargetInputs == {Missing, Val(0)} \cup {Val(kb) : kb \in 1..MaxTargetKB}

ObjectPayload(o) == Val([kind |-> "object", object |-> o])
OtherPayload(kind) == Val([kind |-> kind, object |-> EmptyOptions])

\* The option objects sent to a route: formats against targets, qualities
\* against targets, and presets with and without overrides.
RouteOptions ==
  {Options([format |-> f, targetSizeKB |-> t]) :
     f \in {Missing, Val("webp"), Val("gif")}, t \in TargetInputs}
  \cup {Options([quality |-> q, targetSizeKB |-> t]) :
          q \in QualityInputs, t \in TargetInputs}
  \cup {Options([presetId |-> p, quality |-> q]) :
          p \in {Val("web-optimized"), Val("archive"), Val("nope"), Val("")},
          q \in {Missing, Val(MAX_QUALITY + 50)}}

\* Uploads of several pixel sizes: landscape, large square, and smaller than
\* any requested box; the last one an SVG document.
Sources ==
  {Picture(Val("jpeg"), 1, 400, 300), Picture(Val("png"), 1, 1000, 1000),
   Picture(Val("jpeg"), 1, 100, 50), Picture(Val("svg"), 1, 300, 300)}

\* Options that shape the transform plan: resize boxes with and without a
\* preset, the metadata policy, and an explicit format, inside the declared
\* enum or not (the routes pass on whatever string the JSON carries).
PlanOptions ==
  {Options([presetId |-> Val("thumbnail"), width |-> w]) : w \in {Missing, Val(500)}}
  \cup {Options([width |-> box[1], height |-> box[2], keepAspectRatio |-> k]) :
          box \in {<<Missing, Missing>>, <<Val(0), Missing>>, <<Val(200), Missing>>,
                   <<Missing, Val(100)>>, <<Val(200), Val(100)>>},
          k \in {Missing, Val(FALSE)}}
  \cup {Options([stripMetadata |-> m]) : m \in {Val(TRUE), Val(FALSE)}}
  \cup {Options([format |-> Val(f), width |-> w]) :
          f \in SupportedFormat \cup {"bmp"}, w \in {Missing, Val(200)}}

RouteRequests ==
  {[file |-> f, payload |-> ObjectPayload(o)] : f \in Sources, o \in PlanOptions}
  \cup
  {[file |-> f, payload |-> p] :
     f \in {Missing, Photo, File(Val("jpeg"), MaxUploadMB + 1)},
     p \in {Missing, OtherPayload("malformed"), OtherPayload("null"),
            OtherPayload("scalar"), ObjectPayload(Options([targetSizeKB |-> Val(1)]))}}
  \cup {[file |-> Photo, payload |-> ObjectPayload(o)] : o \in RouteOptions}
  \cup {[file |-> File(n, 1), payload |-> ObjectPayload(Options([targetSizeKB |-> Val(1)]))] :
          n \in {Missing, Val("JPG"), Val("gif"), Val("svg"), Val("heif")}}

\* Size-targeted calls of processImage on a photo.
SearchRequest(q, kb) ==
  [file |-> Photo,
   payload |-> ObjectPayload(Options([quality |-> q, targetSizeKB |-> Val(kb)]))]

SearchRequests ==
  {SearchRequest(q, kb) :
     q \in QualityInputs \cup {Val(DEFAULT_QUALITY)}, kb \in 1..MaxTargetKB}

\* Single-pass calls on the same photo: at the default quality, and at
\* each quality of the domain.
ReferenceRequest(q) ==
  [file |-> Photo, payload |-> ObjectPayload(Options([quality |-> q]))]

ReferenceRequests == {ReferenceRequest(Val(k)) : k \in MIN_QUALITY..MAX_QUALITY}

\* The search, then the reference render it is compared with: every search
\* against the default render, and the search from the default quality
\* against a render at each quality of the domain.
ComparedPairs ==
  {<<a, ReferenceRequest(Missing)>> : a \in SearchRequests}
  \cup {<<SearchRequest(Missing, kb), b>> :
          kb \in 1..MaxTargetKB, b \in ReferenceRequests}

\* useState({ presetId: "", format: "webp", quality: 85, targetSizeKB: 500,
\* width: undefined, height: undefined, keepAspectRatio: true,
\* stripMetadata: true })
InitialUiOptions ==
  Options([presetId |-> Val(""), format |-> Val("webp"), quality |-> Val(85),
           targetSizeKB |-> Val(500), width |-> Undef, height |-> Undef,
           keepAspectRatio |-> Val(TRUE), stripMetadata |-> Val(TRUE)])

\* Nothing has run.
Unstarted(R) ==
  /\ memo = <<>>
  /\ response = [r \in R |-> Missing]
  /\ mergedOptions = [r \in R |-> EmptyOptions]
  /\ pc = [r \in R |-> "idle"]
  /\ pending = [r \in R |-> Missing]
  /\ calls = [r \in R |-> <<>>]
  /\ codecCalls = [r \in R |-> 0]
  /\ failures = [r \in R |-> 0]
  /\ settled = [r \in R |-> 0]
  /\ uiOptions = [r \in R |-> InitialUiOptions]
  /\ format = [r \in R |-> ""]
  /\ qualityCap = [r \in R |-> 0]
  /\ targetBytes = [r \in R |-> 0]
  /\ low = [r \in R |-> 0]
  /\ high = [r \in R |-> 0]
  /\ bestQuality = [r \in R |-> 0]
  /\ bestResult = [r \in R |-> Missing]
  /\ i = [r \in R |-> 0]
  /\ result = [r \in R |-> Missing]

\* Every request has arrived and nothing has run.
Fresh(R) == phase = [r \in R |-> "arrived"] /\ Unstarted(R)

\* One request to one of the routes; the codec promises nothing.
Init ==
  /\ codecLaw = "any"
  /\ handler \in [{1} -> {"express", "next", "nextLegacy"}]
  /\ request \in [{1} -> RouteRequests]
  /\ registry = RegistryOf(handler[1])
  /\ Fresh({1})

One == {1}
Two == {1, 2}

Next ==
  \E r \in One :
    \/ ExpressPost(r)
    \/ NextPost(r)
    \/ NextLegacyPost(r)
    \/ MetadataReturn(r)
    \/ SingleRenderReturn(r)
    \/ InitialRenderReturn(r)
    \/ ProbeReturn(r)
    \/ FinalRenderReturn(r)
    \/ CodecThrow(r)
    \/ ExpressSettle(r)
    \/ NextSettle(r)
    \/ NextLegacySettle(r)

Spec == Init /\ [][Next]_vars

\* The codec call a request awaits settles: it answers or it fails.
CodecSettles(r) ==
  \/ MetadataReturn(r)
  \/ SingleRenderReturn(r)
  \/ InitialRenderReturn(r)
  \/ ProbeReturn(r)
  \/ FinalRenderReturn(r)
  \/ CodecThrow(r)

\* The same requests, with every codec call settling in the end.
SpecLive == Init /\ [][Next]_vars /\ \A r \in One : WF_vars(CodecSettles(r))

\* One direct call, size-targeted or not, against a codec whose output
\* depends only on its inputs.
InitDet ==
  /\ codecLaw = "deterministic"
  /\ handler = [r \in One |-> "direct"]
  /\ request \in [One -> SearchRequests \cup {ReferenceRequest(Missing)}]
  /\ registry = RegistryOf("direct")
  /\ Fresh(One)

NextDet ==
  \E r \in One :
    \/ DirectCall(r)
    \/ MetadataReturn(r)
    \/ SingleRenderReturn(r)
    \/ InitialRenderReturn(r)
    \/ ProbeReturn(r)
    \/ FinalRenderReturn(r)

SpecDet == InitDet /\ [][NextDet]_vars

\* A size-targeted call and then a single-pass call on the same photo,
\* against a deterministic codec whose sizes never decrease with quality.
InitMono ==
  /\ codecLaw = "monotone"
  /\ handler = [r \in Two |-> "direct"]
  /\ request \in {[r \in Two |-> pair[r]] : pair \in ComparedPairs}
  /\ registry = RegistryOf("direct")
  /\ Fresh(Two)

NextMono ==
  \E r \in Two :
    \/ DirectCall(r)
    \/ MetadataReturn(r)
    \/ SingleRenderReturn(r)
    \/ InitialRenderReturn(r)
    \/ ProbeReturn(r)
    \/ FinalRenderReturn(r)

SpecMono == InitMono /\ [][NextMono]_vars

\* A caller of the resolver alone: resolvePresetOptions(presetId, overrides)
\* on either copy of the registry.
ResolveCall(r) ==
  /\ handler[r] = "resolver" /\ phase[r] = "arrived"
  /\ LET presetId == request[r].presetId
         options == Get(request[r].payload).object
     IN  /\ mergedOptions' = [mergedOptions EXCEPT ![r] =
                               resolvePresetOptions(registry, presetId, options)]
         /\ registry' = presetsAfterResolve(registry, presetId, options)
         /\ request' = [request EXCEPT ![r].payload =
                          ObjectPayload(optionsAfterResolve(registry, presetId, options))]
  /\ phase' = [phase EXCEPT ![r] = "responded"]
  /\ UNCHANGED <<uiOptions, settled, codecLaw, failures, memo, handler, response, callVars, searchVars, result>>

PresetIds ==
  {"size-first", "quality-first", "balanced", "thumbnail", "web-optimized",
   "archive", "format-converter"}

\* Overrides: each property missing, set, or (for two of them) set to undefined.
Overrides ==
  {Options([format |-> f, quality |-> q, targetSizeKB |-> t, width |-> w,
            keepAspectRatio |-> k, stripMetadata |-> m, presetId |-> p]) :
     f \in {Missing, Val("png")}, q \in {Missing, Undef, Val(40)},
     t \in {Missing, Val(1)}, w \in {Missing, Val(500)},
     k \in {Missing, Val(FALSE)}, m \in {Missing, Undef, Val(TRUE)},
     p \in {Missing, Val("thumbnail")}}

ResolveRequests ==
  {[file |-> Missing, payload |-> ObjectPayload(o), presetId |-> id, archive |-> a] :
     o \in Overrides, a \in ArchiveFormats,
     id \in {Missing, Undef, Val(""), Val("unknown")} \cup {Val(x) : x \in PresetIds}}

InitResolve ==
  /\ codecLaw = "any"
  /\ handler = [r \in One |-> "resolver"]
  /\ request \in [One -> ResolveRequests]
  /\ registry = presets(request[1].archive)
  /\ Fresh(One)

NextResolve == \E r \in One : ResolveCall(r)

SpecResolve == InitResolve /\ [][NextResolve]_vars

\* Two requests to one process, in any interleaving: the Express server
\* (process and list-presets routes), or the Next.js application (the same
\* two routes, and a caller of the resolver).
PresetOverrides ==
  {Options([presetId |-> Val("thumbnail"), width |-> Val(500)]),
   Options([presetId |-> Val("archive"), format |-> Val("webp"),
            stripMetadata |-> Val(TRUE)]),
   Options([presetId |-> Val("balanced")]),
   Options([presetId |-> Val("nope"), quality |-> Val(40)])}

RegistryRequests(h) ==
  IF h \in {"expressPresets", "nextPresets"}
  THEN {[file |-> Missing, payload |-> Missing]}
  ELSE IF h = "resolver"
  THEN {[file |-> Missing, payload |-> ObjectPayload(o), presetId |-> id, archive |-> "png"] :
          o \in PresetOverrides,
          id \in {Missing, Val("thumbnail"), Val("archive"), Val("nope")}}
  ELSE {[file |-> Picture(Val("png"), 1, 1000, 1000), payload |-> ObjectPayload(o)] :
          o \in PresetOverrides}

InitRegistry ==
  /\ codecLaw = "any"
  /\ handler \in [Two -> {"express", "expressPresets"}]
                 \cup [Two -> {"next", "nextPresets", "resolver"}]
  /\ request \in {q \in [Two -> UNION {RegistryRequests(h) :
                                          h \in {handler[1], handler[2]}}] :
                    \A r \in Two : q[r] \in RegistryRequests(handler[r])}
  /\ registry = RegistryOf(handler[1])
  /\ Fresh(Two)

NextRegistry ==
  \E r \in Two :
    \/ ExpressGetPresets(r)
    \/ NextGetPresets(r)
    \/ ResolveCall(r)
    \/ ExpressPost(r)
    \/ NextPost(r)
    \/ MetadataReturn(r)
    \/ SingleRenderReturn(r)
    \/ CodecThrow(r)
    \/ ExpressSettle(r)
    \/ NextSettle(r)

SpecRegistry == InitRegistry /\ [][NextRegistry]_vars

(***************************************************************************)
(* app/page.tsx: the page that builds a request.  While a request is in    *)
(* phase "editing", uiOptions holds the page's `options` state and the     *)
(* request records which handler ran last.                                 *)
(***************************************************************************)
SetUi(r, options, action) ==
  /\ phase[r] = "editing"
  /\ uiOptions' = [uiOptions EXCEPT ![r] = options]
  /\ request' = [request EXCEPT ![r].lastUiAction = action]
  /\ UNCHANGED <<registry, settled, codecLaw, failures, memo, handler, phase, response,
                 mergedOptions, callVars, searchVars, result>>

\* handleOptionChange(key, value): { ...prev, [key]: value }
handleOptionChange(r, key, value) ==
  SetUi(r, [uiOptions[r] EXCEPT ![key] = Val(value)], "edit")

\* handleDimensionChange("width", value), the image's aspect ratio known:
\* with keepAspectRatio and a truthy value the height follows the width.
handleDimensionChange(r, value) ==
  LET prev == uiOptions[r]
      keep == HasValue(prev.keepAspectRatio) /\ Get(prev.keepAspectRatio)
  IN  SetUi(r,
            IF keep /\ ~FalsyNumber(value)
            THEN [prev EXCEPT !.width = value,
                              !.height = Val(Nearest(Get(value) * FileOf(r).height,
                                                     FileOf(r).width))]
            ELSE [prev EXCEPT !.width = value],
            "edit")

\* handlePresetSelect(presetId), the presets being those /api/presets lists.
handlePresetSelect(r, presetId) ==
  LET prev == uiOptions[r]
      preset == FindPreset(registry, presetId)
      kept(f) == IF HasValue(preset[1].options[f]) THEN preset[1].options[f] ELSE prev[f]
  IN  IF presetId = "" THEN SetUi(r, InitialUiOptions, "presetSelect")
      ELSE IF preset = <<>> THEN SetUi(r, prev, "presetSelect")
      ELSE SetUi(r,
                 [Spread([prev EXCEPT !.presetId = Val(presetId)], preset[1].options)
                    EXCEPT !.width = kept("width"), !.height = kept("height")],
                 "presetSelect")

\* JSON.stringify leaves out the properties whose value is undefined.
Stringify(o) == [f \in Fields |-> IF HasValue(o[f]) THEN o[f] ELSE Missing]

\* onProcess: the payload built from `options`, posted to /api/process.
onProcess(r) ==
  /\ phase[r] = "editing"
  /\ HasValue(request[r].file)
  /\ LET options == uiOptions[r]
         payload == [options EXCEPT
                       !.width = IF FalsyNumber(options.width) THEN Undef ELSE options.width,
                       !.height = IF FalsyNumber(options.height) THEN Undef ELSE options.height,
                       !.presetId = IF FalsyString(options.presetId) THEN Undef
                                    ELSE options.presetId]
     IN  request' = [request EXCEPT ![r].payload = ObjectPayload(Stringify(payload))]
  /\ phase' = [phase EXCEPT ![r] = "arrived"]
  /\ UNCHANGED <<registry, uiOptions, settled, codecLaw, failures, memo, handler, response,
                 mergedOptions, callVars, searchVars, result>>

\* What the user enters in the option fields.
UiEdits == {<<"format", "png">>, <<"quality", 60>>, <<"targetSizeKB", 0>>}
UiWidths == {Undef, Val(200)}
UiPresets == {"", "format-converter", "thumbnail", "web-optimized"}

\* One request to the Next.js route: built on the page, or sent by an API
\* caller with nothing but a presetId.
InitUi ==
  /\ codecLaw = "any"
  /\ handler = [r \in One |-> "next"]
  /\ registry = RegistryOf("next")
  /\ \/ /\ request = [r \in One |->
                         [file |-> Photo, payload |-> Missing, lastUiAction |-> "none"]]
        /\ phase = [r \in One |-> "editing"]
        /\ Unstarted(One)
     \/ /\ request \in [One ->
             {[file |-> Photo, lastUiAction |-> "none",
               payload |-> ObjectPayload(Options([presetId |-> Val(id)]))] :
                id \in {"format-converter", "balanced"}}]
        /\ Fresh(One)

NextUi ==
  \E r \in One :
    \/ \E edit \in UiEdits : handleOptionChange(r, edit[1], edit[2])
    \/ \E value \in UiWidths : handleDimensionChange(r, value)
    \/ \E presetId \in UiPresets : handlePresetSelect(r, presetId)
    \/ onProcess(r)
    \/ NextPost(r)
    \/ MetadataReturn(r)
    \/ SingleRenderReturn(r)
    \/ InitialRenderReturn(r)
    \/ ProbeReturn(r)
    \/ FinalRenderReturn(r)
    \/ NextSettle(r)

SpecUi == InitUi /\ [][NextUi]_vars

\* Two process requests to the Next.js route that run concurrently, against
\* a codec whose output depends only on its inputs: two searches on the same
\* upload from different requested qualities, a search next to a single
\* pass on another upload, and two single passes with different options.
ConcurrentPairs ==
  {<<SearchRequest(Val(MIN_QUALITY - 5), 1), SearchRequest(Val(55), 1)>>,
   <<[file |-> Picture(Val("png"), 1, 1000, 1000),
      payload |-> ObjectPayload(Options([width |-> Val(200)]))],
     SearchRequest(Val(55), 1)>>,
   <<[file |-> Photo, payload |-> ObjectPayload(Options([width |-> Val(200)]))],
     [file |-> Photo,
      payload |-> ObjectPayload(Options([presetId |-> Val("archive")]))]>>}

InitConcurrent ==
  /\ codecLaw = "deterministic"
  /\ handler = [r \in Two |-> "next"]
  /\ request \in {[r \in Two |-> pair[r]] : pair \in ConcurrentPairs}
  /\ registry = RegistryOf("next")
  /\ Fresh(Two)

NextConcurrent ==
  \E r \in Two :
    \/ NextPost(r)
    \/ MetadataReturn(r)
    \/ SingleRenderReturn(r)
    \/ InitialRenderReturn(r)
    \/ ProbeReturn(r)
    \/ FinalRenderReturn(r)
    \/ NextSettle(r)

SpecConcurrent == InitConcurrent /\ [][NextConcurrent]_vars

(***************************************************************************)
(* Properties.                                                             *)
(***************************************************************************)
Requests == DOMAIN pc
Returned(r) == pc[r] = "returned"
ReturnedSize(r) == Get(result[r]).info.size
\* Distance of a size to the target of the search of request 1.
Off(size) == Abs(size - targetBytes[1])
\* The quality a request asks for, clamped, as the specification states it.
ExpectedQuality(r) ==
  LET q == mergedOptions[r].quality
  IN  IF ~HasValue(q) THEN 85
      ELSE IF Get(q) < 10 THEN 10
      ELSE IF Get(q) > 100 THEN 100
      ELSE Get(q)
\* The qualities the search of request r has rendered.
Rendered(r) == {calls[r][k] : k \in 1..Len(calls[r])}

\* C1 as claimed: with a deterministic codec whose size never decreases with
\* quality, no quality of 10..100 (the reference call renders one of them on
\* the same input) renders strictly closer to the target than the result of
\* the size-targeted call.
ClaimC1 ==
  (Returned(1) /\ Returned(2)) => Off(ReturnedSize(1)) <= Off(ReturnedSize(2))

\* C1 as amended: no quality of 10..100 renders strictly closer to the target
\* than the result, except possibly a quality left between low and high when
\* the six iterations are used up (and not the requested one): the result is
\* the closest within the part of the domain the iteration budget covered.
TheoremC1 ==
  (/\ Returned(1) /\ Returned(2)
   /\ \/ qualityCap[2] \notin low[1]..high[1]
      \/ qualityCap[2] = qualityCap[1])
  => Off(ReturnedSize(1)) <= Off(ReturnedSize(2))

\* A search that made all eight renders, compared with a render at a quality
\* it never rendered and that is strictly farther from the target.
WitnessC1 ==
  /\ Returned(1) /\ Returned(2)
  /\ Len(calls[1]) = 8
  /\ qualityCap[2] \notin low[1]..high[1]
  /\ qualityCap[2] \notin Rendered(1)
  /\ Off(ReturnedSize(1)) < Off(ReturnedSize(2))

\* C2: with a codec whose output depends only on its inputs, the returned
\* result of a size-targeted request is at least as close to the target as
\* every render the request performed (the codec's record holds them all).
TheoremC2 ==
  \A r \in Requests :
    (Returned(r) /\ Len(calls[r]) > 1) =>
      \A key \in DOMAIN memo :
        Abs(ReturnedSize(r) - targetBytes[r]) <= Abs(memo[key] - targetBytes[r])

\* A finished search of eight renders, one of them strictly farther from the
\* target than the result.
WitnessC2 ==
  \E r \in Requests :
    /\ Returned(r) /\ Len(calls[r]) = 8
    /\ \E key \in DOMAIN memo :
         Abs(ReturnedSize(r) - targetBytes[r]) < Abs(memo[key] - targetBytes[r])

\* Some render of the search hit the target exactly: the target is reachable.
Reached == \E key \in DOMAIN memo : memo[key] = targetBytes[1]

\* C3 as claimed: for any requested quality, a monotone size function and a
\* reachable target, the result of the search is at least as close to the
\* target as a single render at the default quality 85.
ClaimC3 ==
  (/\ Returned(1) /\ Returned(2)
   /\ Nullish(mergedOptions[2].quality)
   /\ Reached)
  => Off(ReturnedSize(1)) <= Off(ReturnedSize(2))

\* C3 as amended: the same, for a requested quality that is absent or equal
\* to the default 85 (the target reachable or not).
TheoremC3 ==
  (/\ Returned(1) /\ Returned(2)
   /\ Nullish(mergedOptions[2].quality)
   /\ mergedOptions[1].quality \in {Missing, Val(85)})
  => Off(ReturnedSize(1)) <= Off(ReturnedSize(2))

\* A search from the default quality that ended strictly closer to the
\* target than the single render at 85.
WitnessC3 ==
  /\ Returned(1) /\ Returned(2)
  /\ Nullish(mergedOptions[2].quality)
  /\ mergedOptions[1].quality = Missing
  /\ Reached
  /\ Off(ReturnedSize(1)) < Off(ReturnedSize(2))

\* C4: whatever sizes the codec returns, a request never makes more than 8
\* render calls (one initial render, six probes, at most one final pass).
TheoremC4 == \A r \in Requests : Len(calls[r]) <= 8

\* A size-targeted request that made all eight renders and returned.
WitnessC4 == \E r \in Requests : Returned(r) /\ Len(calls[r]) = 8

\* The response a request got.
Answer(r) == Get(response[r])
Answered(r) == phase[r] = "responded" /\ HasValue(response[r])

\* C5: once the format is resolved to one that is not quality-driven (gif,
\* svg), or when no targetSizeKB is given, the only render is the one at the
\* clamped requested quality, and the result returned is that render's; for
\* gif and svg this is so whatever targetSizeKB is.
SinglePassCase(r) ==
  \/ format[r] \in {"gif", "svg"}
  \/ format[r] # "" /\ ~HasValue(mergedOptions[r].targetSizeKB)

TheoremC5 ==
  \A r \in Requests :
    SinglePassCase(r) =>
      /\ calls[r] # <<>> => calls[r] = <<ExpectedQuality(r)>>
      /\ Returned(r) =>
           /\ Len(calls[r]) = 1
           /\ ReturnedSize(r) = Get(result[r]).buffer.bytes
           /\ Get(result[r]).buffer.plan.output.quality \in {Missing, Val(calls[r][1])}

\* A gif request that carries a target size and returned after one render.
WitnessC5 ==
  \E r \in Requests :
    /\ format[r] = "gif"
    /\ mergedOptions[r].targetSizeKB = Val(1)
    /\ Returned(r) /\ Len(calls[r]) = 1

\* C6: every quality passed to render lies in 10..100, and when the quality
\* option is absent the first render (single pass or initial) is at 85.
TheoremC6 ==
  \A r \in Requests :
    /\ \A k \in 1..Len(calls[r]) : 10 <= calls[r][k] /\ calls[r][k] <= 100
    /\ (calls[r] # <<>> /\ ~HasValue(mergedOptions[r].quality)) => calls[r][1] = 85

\* A request for quality 5 whose search was first rendered at 10 and went
\* through all eight renders.
WitnessC6 ==
  \E r \in Requests :
    /\ mergedOptions[r].quality = Val(5)
    /\ Len(calls[r]) = 8 /\ calls[r][1] = 10

\* C7: once a codec call of a request has failed, processImage has failed:
\* it holds no outstanding call, has returned no result (whatever best
\* candidate it holds), makes no further codec call, and the route answers
\* 500 without a body.
FailedCase(r) ==
  failures[r] > 0 =>
    /\ pc[r] = "threw"
    /\ pending[r] = Missing
    /\ result[r] = Missing
    /\ Answered(r) => Answer(r).status = 500 /\ Answer(r).body = Missing

NoCallAfterFailure(r) ==
  failures[r] > 0 =>
    /\ codecCalls'[r] = codecCalls[r]
    /\ calls'[r] = calls[r]
    /\ failures'[r] = failures[r]

TheoremC7 ==
  /\ [](\A r \in Requests : FailedCase(r))
  /\ [][\A r \in Requests : NoCallAfterFailure(r)]_vars

\* A probe failed while a best candidate was held, and the route answered.
WitnessC7 ==
  \E r \in Requests :
    /\ failures[r] > 0 /\ HasValue(bestResult[r]) /\ Len(calls[r]) > 2
    /\ Answered(r)

\* C8 as claimed: a request without a file, or whose options payload does
\* not parse to an options object, is answered 400 and no codec call is made.
MalformedInput(r) ==
  \/ ~HasValue(request[r].file)
  \/ /\ HasValue(request[r].payload)
     /\ Get(request[r].payload).kind \in {"malformed", "null", "scalar"}

ClaimC8 ==
  \A r \in Requests :
    MalformedInput(r) =>
      /\ codecCalls[r] = 0
      /\ Answered(r) => Answer(r).status = 400

\* C9: a response is either a success carrying the whole buffer of the
\* result processImage returned (all the bytes the codec reported for that
\* render), or an error without image bytes; a request whose processImage
\* did not return never gets a buffer.
TheoremC9 ==
  \A r \in Requests :
    /\ phase[r] = "responded" <=> HasValue(response[r])
    /\ Answered(r) =>
         \/ /\ Answer(r).status = 200
            /\ Returned(r)
            /\ Answer(r).body = Val(Get(result[r]).buffer)
            /\ Get(result[r]).buffer.bytes = ReturnedSize(r)
         \/ /\ Answer(r).status \in {400, 500}
            /\ Answer(r).body = Missing
            /\ ~Returned(r)

\* A success after a full search, which sends the final pass's buffer.
WitnessC9 ==
  \E r \in Requests :
    /\ Answered(r) /\ Answer(r).status = 200
    /\ Len(calls[r]) = 8
    /\ HasValue(Answer(r).body)

\* C10: resolvePresetOptions(P, O) is O itself when P is absent, empty or
\* unknown; for a known P every property present in O has O's value in the
\* result, and every property absent from O and present in P's bundle has
\* the bundle's value.
Bundle(archive, id) ==
  LET reg == presets(archive)
  IN  reg[CHOOSE k \in 1..Len(reg) : reg[k].id = id].options

ResolveCase(r) == handler[r] = "resolver" /\ phase[r] = "responded"

TheoremC10 ==
  \A r \in Requests :
    ResolveCase(r) =>
      LET P == request[r].presetId
          O == Get(request[r].payload).object
          R == mergedOptions[r]
      IN  IF ~HasValue(P) \/ Get(P) \notin PresetIds
          THEN R = O
          ELSE \A f \in Fields :
                 /\ O[f] # Missing => R[f] = O[f]
                 /\ (O[f] = Missing /\ Bundle(request[r].archive, Get(P))[f] # Missing)
                      => R[f] = Bundle(request[r].archive, Get(P))[f]

\* The thumbnail preset resolved under overrides that replace its quality
\* and leave its width and height to the preset.
WitnessC10 ==
  \E r \in Requests :
    /\ ResolveCase(r)
    /\ request[r].presetId = Val("thumbnail")
    /\ Get(request[r].payload).object.quality = Val(40)
    /\ Get(request[r].payload).object.width = Missing
    /\ mergedOptions[r].quality = Val(40)
    /\ mergedOptions[r].width = Val(320)

\* A call of the resolver with the id of a preset of the registry.
KnownPresetCase(r) ==
  /\ ResolveCase(r)
  /\ HasValue(request[r].presetId)
  /\ Get(request[r].presetId) \in PresetIds

\* C11 as claimed: with a known preset, a property that the overrides carry
\* with the value undefined counts as not present, so the result keeps the
\* preset's value for it.
ClaimC11 ==
  \A r \in Requests :
    KnownPresetCase(r) =>
      \A f \in Fields :
        LET O == Get(request[r].payload).object
            P == Bundle(request[r].archive, Get(request[r].presetId))
        IN  (O[f] = Undef /\ P[f] # Missing) => mergedOptions[r][f] = P[f]

\* C12 as claimed: with a known preset id P, the result's presetId is the P
\* given as the first argument, also when the overrides have no presetId.
ClaimC12 ==
  \A r \in Requests :
    KnownPresetCase(r) => mergedOptions[r].presetId = request[r].presetId

\* The single render of a request that resolved to the thumbnail preset
\* with the width overridden to 500, once it has returned.
ThumbnailWiderCase(r) ==
  /\ Returned(r)
  /\ HasValue(request[r].payload)
  /\ Get(request[r].payload).object =
       Options([presetId |-> Val("thumbnail"), width |-> Val(500)])

\* C13 as claimed: for {presetId: "thumbnail", width: 500} the resolved
\* width is 500 and the preset's height of 320 does not constrain the
\* resize: whenever the source is wider than 500, the output is 500 wide and
\* as high as the source's aspect ratio makes it at that width.
ClaimC13 ==
  \A r \in Requests :
    ThumbnailWiderCase(r) =>
      /\ mergedOptions[r].width = Val(500)
      /\ FileOf(r).width > 500 =>
           /\ Get(result[r]).info.width = 500
           /\ Get(result[r]).info.height =
                Nearest(FileOf(r).height * 500, FileOf(r).width)

\* The transform plan of the render a request returned.
ReturnedPlan(r) == Get(result[r]).buffer.plan

\* C14 as claimed: when options.format is set to a member of the format
\* enum, the encoder of the returned render and the format reported in the
\* result's info are that format, whatever the input's native format.
ClaimC14 ==
  \A r \in Requests :
    (/\ Returned(r)
     /\ HasValue(mergedOptions[r].format)
     /\ Get(mergedOptions[r].format) \in SupportedFormat) =>
      /\ ReturnedPlan(r).output.encoder = Get(mergedOptions[r].format)
      /\ Get(result[r]).info.format = Get(mergedOptions[r].format)

\* C15 as claimed: once a request has reached a render, its resolved format
\* is one of jpeg, png, webp, gif, avif, tiff, svg; and without an explicit
\* format, a missing or unrecognized native format and "jpg" (in any case)
\* resolve to jpeg.
ClaimC15 ==
  \A r \in Requests :
    calls[r] # <<>> =>
      /\ format[r] \in {"jpeg", "png", "webp", "gif", "avif", "tiff", "svg"}
      /\ (/\ ~HasValue(mergedOptions[r].format)
          /\ FileOf(r).native \in {Missing, Val("heif"), Val("JPG")}) =>
           format[r] = "jpeg"

\* C16 as claimed: when the resolved format is svg the plan is a
\* pass-through: no resize step, and the returned image is the input as it
\* was (its format and its dimensions), whatever width, height,
\* keepAspectRatio and quality are.
ClaimC16 ==
  \A r \in Requests :
    (Returned(r) /\ format[r] = "svg") =>
      /\ ReturnedPlan(r).resize = Missing
      /\ Get(result[r]).info.format = Get(FileOf(r).native)
      /\ Get(result[r]).info.width = FileOf(r).width
      /\ Get(result[r]).info.height = FileOf(r).height

\* The plans of the renders of a request that the state holds: the one
\* outstanding, the best candidate's and the returned one's.
PlansOf(r) ==
  (IF HasValue(pending[r]) /\ Get(pending[r]).op = "render"
   THEN {Get(pending[r]).plan} ELSE {})
  \cup (IF HasValue(bestResult[r]) THEN {Get(bestResult[r]).buffer.plan} ELSE {})
  \cup (IF HasValue(result[r]) THEN {ReturnedPlan(r)} ELSE {})

\* C17: a render's plan has a resize step only when the resolved options
\* carry a width or a height (the caller's or a preset's), and the step is
\* for those dimensions; with neither, no render of the request resizes.
TheoremC17 ==
  \A r \in Requests :
    \A plan \in PlansOf(r) :
      LET o == mergedOptions[r]
      IN  /\ HasValue(plan.resize) =>
               /\ HasValue(o.width) \/ HasValue(o.height)
               /\ Get(plan.resize).width = o.width
               /\ Get(plan.resize).height = o.height
          /\ (~HasValue(o.width) /\ ~HasValue(o.height)) => plan.resize = Missing

\* A request that names only the thumbnail preset returned a render resized
\* to the preset's box.
WitnessC17 ==
  \E r \in Requests :
    /\ Returned(r)
    /\ HasValue(request[r].payload)
    /\ Get(request[r].payload).object = Options([presetId |-> Val("thumbnail")])
    /\ HasValue(ReturnedPlan(r).resize)
    /\ Get(ReturnedPlan(r).resize).width = Val(320)

\* C19: a render keeps the embedded metadata only when the resolved
\* stripMetadata is the value false; when it is absent or true every render
\* of the request strips.
TheoremC19 ==
  \A r \in Requests :
    \A plan \in PlansOf(r) :
      /\ plan.withMetadata => mergedOptions[r].stripMetadata = Val(FALSE)
      /\ mergedOptions[r].stripMetadata \in {Missing, Val(TRUE)} => ~plan.withMetadata

\* The archive preset (stripMetadata false) returned a render that keeps
\* the metadata.
WitnessC19 ==
  \E r \in Requests :
    /\ Returned(r)
    /\ mergedOptions[r].presetId = Val("archive")
    /\ mergedOptions[r].stripMetadata = Val(FALSE)
    /\ ReturnedPlan(r).withMetadata

\* C18 as claimed: with keepAspectRatio false and both width and height
\* given, the returned image is exactly width x height, whatever the
\* source's size and aspect ratio, a source smaller than the box included.
ClaimC18 ==
  \A r \in Requests :
    LET o == mergedOptions[r]
    IN  (/\ Returned(r)
         /\ o.keepAspectRatio = Val(FALSE)
         /\ HasValue(o.width) /\ HasValue(o.height)) =>
          /\ Get(result[r]).info.width = Get(o.width)
          /\ Get(result[r]).info.height = Get(o.height)

\* C20: whatever list-presets, resolve and process operations have run, the
\* registry is the declared one: the seven presets in declaration order with
\* their declared options; a list-presets response carries all seven in
\* that order; and no step changes the registry or the overrides object a
\* caller passed in.
DeclaredIds ==
  <<"size-first", "quality-first", "balanced", "thumbnail", "web-optimized",
    "archive", "format-converter">>

RegistryIntact ==
  /\ registry = RegistryOf(handler[1])
  /\ [k \in 1..Len(registry) |-> registry[k].id] = DeclaredIds
  /\ \A r \in Requests :
       (handler[r] \in {"expressPresets", "nextPresets"} /\ Answered(r)) =>
         /\ Answer(r).status = 200
         /\ Answer(r).body = Val(RegistryOf(handler[1]))

TheoremC20 ==
  /\ []RegistryIntact
  /\ [][registry' = registry /\ request' = request]_vars

\* The thumbnail preset was resolved under a width override for a process
\* request that was answered, and a list-presets request was answered too.
WitnessC20 ==
  \E r, l \in Requests :
    /\ handler[r] \in {"express", "next"}
    /\ Answered(r) /\ Answer(r).status = 200
    /\ mergedOptions[r].presetId = Val("thumbnail")
    /\ mergedOptions[r].width = Val(500)
    /\ handler[l] \in {"expressPresets", "nextPresets"}
    /\ Answered(l) /\ Len(Get(Answer(l).body)) = 7

(***************************************************************************)
(* processImage run on its own, start to end, against the codec's record.  *)
(* A render the record does not hold yet ends the run with no result.      *)
(***************************************************************************)
RenderAlone(file, options, quality, fmt) ==
  LET plan == buildPipeline(options, quality, fmt)
  IN  IF <<file, plan>> \in DOMAIN memo
      THEN Val([buffer |-> [plan |-> plan, bytes |-> memo[<<file, plan>>]],
                info |-> [format |-> ReportedFormat(file, plan),
                          size |-> memo[<<file, plan>>],
                          width |-> ReportedSize(file, plan).width,
                          height |-> ReportedSize(file, plan).height]])
      ELSE Missing

RECURSIVE SearchAlone(_, _, _, _, _, _, _, _, _, _, _)
SearchAlone(file, options, fmt, cap, target, lo, hi, bestQ, best, k, done) ==
  IF k = Iterations
  THEN IF NeedsFinalPass(bestQ, cap)
       THEN [calls |-> Append(done, bestQ),
             result |-> RenderAlone(file, options, bestQ, fmt)]
       ELSE [calls |-> done, result |-> Val(best)]
  ELSE LET mid == Mid(lo, hi)
           probe == RenderAlone(file, options, mid, fmt)
       IN  IF probe = Missing
           THEN [calls |-> Append(done, mid), result |-> Missing]
           ELSE LET size == Get(probe).info.size
                    better == Improves(Abs(size - target), Abs(best.info.size - target))
                IN  SearchAlone(file, options, fmt, cap, target,
                                IF TooBig(size, target) THEN lo ELSE mid + 1,
                                IF TooBig(size, target) THEN mid - 1 ELSE hi,
                                KeptQuality(better, mid, bestQ),
                                IF better THEN Get(probe) ELSE best,
                                k + 1, Append(done, mid))

ProcessAlone(file, options) ==
  LET fmt == IF Nullish(options.format) THEN formatFromMetadata(file.native)
             ELSE Get(options.format)
      cap == Clamp(IF Nullish(options.quality) THEN DEFAULT_QUALITY
                   ELSE Get(options.quality))
      first == RenderAlone(file, options, cap, fmt)
  IN  IF ~isQualityDrivenFormat(fmt) \/ FalsyNumber(options.targetSizeKB)
         \/ first = Missing
      THEN [calls |-> <<cap>>, result |-> first]
      ELSE SearchAlone(file, options, fmt, cap,
                       Get(options.targetSizeKB) * BytesPerKB,
                       MIN_QUALITY, InitialHigh(cap), cap, Get(first), 0, <<cap>>)

\* The run of request r's processImage call on its own.
Alone(r) ==
  LET o == Get(request[r].payload).object
  IN  ProcessAlone(FileOf(r), resolvePresetOptions(registry, o.presetId, o))

\* What a request holds for itself.
LocalState(r) ==
  <<mergedOptions[r], pending[r], calls[r], format[r], qualityCap[r],
    targetBytes[r], low[r], high[r], bestQuality[r], bestResult[r], i[r], result[r]>>

\* C21: in every interleaving of two concurrent process requests against a
\* deterministic codec, a request that returns has issued the renders of
\* its run alone, in order, and returns that run's result; a
\* step changes the options, search state and results of one request only.
IsolatedRuns ==
  \A r \in Requests :
    Returned(r) =>
      LET alone == Alone(r)
      IN  calls[r] = alone.calls /\ result[r] = alone.result

TheoremC21 ==
  /\ []IsolatedRuns
  /\ [][\A r1, r2 \in Requests :
          (LocalState(r1)' # LocalState(r1) /\ LocalState(r2)' # LocalState(r2))
            => r1 = r2]_vars

\* Two searches from different requested qualities are under way at once:
\* one awaits its fourth probe while the other awaits its final pass.
WitnessC21 ==
  /\ pc[1] = "probe" /\ i[1] = 3
  /\ pc[2] = "final"
  /\ qualityCap[1] # qualityCap[2]

\* Codec calls of a request that were issued and have not settled.
Outstanding(r) == codecCalls[r] - settled[r]

\* C22: a request has at most one codec call outstanding: the metadata
\* decode has settled before the first render is issued, and a call is
\* issued only in a step by which every earlier call of the request has
\* settled.
OneOutstanding(r) ==
  /\ Outstanding(r) \in {0, 1}
  /\ Outstanding(r) = 1 <=> HasValue(pending[r])
  /\ calls[r] # <<>> => (settled[r] >= 1 /\ format[r] # "")

IssuedAfterSettled(r) ==
  codecCalls'[r] # codecCalls[r] =>
    /\ codecCalls'[r] = codecCalls[r] + 1
    /\ settled'[r] = codecCalls[r]

TheoremC22 ==
  /\ [](\A r \in Requests : OneOutstanding(r))
  /\ [][\A r \in Requests : IssuedAfterSettled(r)]_vars

\* A search awaiting its final pass: the ninth codec call is outstanding
\* and the eight before it have settled.
WitnessC22 ==
  \E r \in Requests :
    pc[r] = "final" /\ codecCalls[r] = 9 /\ settled[r] = 8 /\ HasValue(pending[r])

\* C23: with a codec whose output depends only on its inputs, the final
\* pass asks for the render whose output bestResult already holds, and what
\* processImage returns after it is the bestResult held at loop exit, buffer
\* and info; returning bestResult without the pass gives the same output.
FinalPassRepeats(r) ==
  pc[r] = "final" =>
    /\ bestQuality[r] # qualityCap[r]
    /\ Get(pending[r]).plan = Get(bestResult[r]).buffer.plan
    /\ <<FileOf(r), Get(pending[r]).plan>> \in DOMAIN memo

FinalPassReturnsBest(r) ==
  (pc[r] = "final" /\ pc'[r] = "returned") => result'[r] = bestResult[r]

TheoremC23 ==
  /\ [](\A r \in Requests : FinalPassRepeats(r))
  /\ [][\A r \in Requests : FinalPassReturnsBest(r)]_vars

\* A search that made the final pass and returned, its best candidate
\* being the one found by the last probe.
WitnessC23 ==
  \E r \in Requests :
    /\ Returned(r) /\ Len(calls[r]) = 8
    /\ calls[r][8] = calls[r][7]
    /\ result[r] = bestResult[r]

\* A request sent with the format-converter preset: by an API caller with
\* nothing but the presetId, or from the page right after that preset was
\* selected (whatever was edited before).
FormatConverterCase(r) ==
  /\ phase[r] # "editing"
  /\ HasValue(request[r].payload)
  /\ \/ /\ request[r].lastUiAction = "none"
        /\ Get(request[r].payload).object =
             Options([presetId |-> Val("format-converter")])
     \/ /\ request[r].lastUiAction = "presetSelect"
        /\ uiOptions[r].presetId = Val("format-converter")

\* C24 as claimed: such a request is converted only: the server makes
\* exactly one render, at quality 100, with no resize step, and no
\* size-target search.
ClaimC24 ==
  \A r \in Requests :
    FormatConverterCase(r) =>
      /\ pc[r] \notin {"initial", "probe", "final"}
      /\ calls[r] # <<>> => calls[r] = <<100>>
      /\ \A plan \in PlansOf(r) : plan.resize = Missing

\* A request whose processImage call takes the size-targeted path.
SizeTargeted(r) ==
  /\ format[r] # ""
  /\ isQualityDrivenFormat(format[r])
  /\ ~FalsyNumber(mergedOptions[r].targetSizeKB)

\* The probes a search has issued: its renders after the initial one, the
\* final pass left out.
Probes(r) ==
  SubSeq(calls[r], 2, IF pc[r] \in {"final", "returned"} /\ Len(calls[r]) = 8
                      THEN 7 ELSE Len(calls[r]))

\* C25: a size-targeted search none of whose codec calls fails makes
\* exactly six probes, whatever sizes come back: while a probe is awaited
\* fewer than six have been answered, and the final pass and the return
\* come only after the sixth, also when a probe met the target exactly.
TheoremC25 ==
  \A r \in Requests :
    (SizeTargeted(r) /\ failures[r] = 0) =>
      /\ pc[r] = "probe" => (i[r] < 6 /\ Len(Probes(r)) = i[r] + 1)
      /\ pc[r] \in {"final", "returned"} => (i[r] = 6 /\ Len(Probes(r)) = 6)

\* A search whose first probe met the target exactly and that went on to
\* make all six probes before it returned.
WitnessC25 ==
  \E r \in Requests :
    /\ SizeTargeted(r) /\ Returned(r)
    /\ bestQuality[r] = 55 /\ qualityCap[r] # 55
    /\ ReturnedSize(r) = targetBytes[r]
    /\ Len(Probes(r)) = 6

\* The size the codec's record holds for request r's render at quality q.
SizeAt(r, q) == memo[<<FileOf(r), buildPipeline(mergedOptions[r], q, format[r])>>]

\* Distance of the best candidate request r holds to its target.
BestOff(r) == Abs(Get(bestResult[r]).info.size - targetBytes[r])

\* C26: a probe replaces the best candidate only when it is strictly closer
\* to the target, and then the best quality becomes the probe's; otherwise
\* candidate and quality stay.  So the result returned is the render of the
\* first quality, in render order from the initial one, that is as close as
\* any quality rendered.
ProbeKeepsTies(r) ==
  (pc[r] = "probe" /\ i'[r] = i[r] + 1) =>
    IF Get(bestResult'[r]) # Get(bestResult[r])
    THEN /\ BestOff(r)' < BestOff(r)
         /\ bestQuality'[r] = Get(pending[r]).quality
    ELSE bestQuality'[r] = bestQuality[r]

FirstClosestReturned(r) ==
  (SizeTargeted(r) /\ Returned(r)) =>
    LET off(k) == Abs(SizeAt(r, calls[r][k]) - targetBytes[r])
        first == CHOOSE k \in 1..7 :
                   /\ \A j \in 1..7 : off(k) <= off(j)
                   /\ \A j \in 1..(k - 1) : off(j) > off(k)
    IN  /\ ReturnedPlan(r).output.quality = Val(calls[r][first])
        /\ bestQuality[r] = calls[r][first]

TheoremC26 ==
  /\ [](\A r \in Requests : FirstClosestReturned(r))
  /\ [][\A r \in Requests : ProbeKeepsTies(r)]_vars

\* A search in which a probe was exactly as close as the initial render,
\* on the other side of the target, and the initial render was returned.
WitnessC26 ==
  \E r \in Requests :
    /\ SizeTargeted(r) /\ Returned(r) /\ Len(calls[r]) = 7
    /\ \E k \in 2..7 :
         /\ SizeAt(r, calls[r][k]) # ReturnedSize(r)
         /\ Abs(SizeAt(r, calls[r][k]) - targetBytes[r]) = Off(ReturnedSize(r))
    /\ bestQuality[r] = qualityCap[r]

\* C27: provided every codec call settles, a processImage call that has
\* started ends, returning or failing, and by then it has made at most one
\* metadata decode and at most 8 renders, whatever sizes the codec answers.
BoundedCalls(r) ==
  /\ Len(calls[r]) <= 8
  /\ codecCalls[r] <= 1 + Len(calls[r])
  /\ codecCalls[r] <= 9

Ended(r) == pc[r] \in {"returned", "threw"}

TheoremC27 ==
  /\ [](\A r \in Requests : BoundedCalls(r))
  /\ \A r \in One : (pc[r] = "metadata") ~> Ended(r)

\* A call that ended by failing at its last render, the final pass.
WitnessC27 ==
  \E r \in Requests :
    pc[r] = "threw" /\ Len(calls[r]) = 8 /\ codecCalls[r] = 9

\* C28: at the start of each of the six iterations low <= high; the first
\* starts from low = 10 and high = 100; the probed quality is the midpoint
\* rounded half up and lies between low and high; each probe moves high to
\* mid - 1 or low to mid + 1; no quality is probed twice in one search.
IterationStart(r) ==
  pc[r] = "probe" =>
    LET mid == Get(pending[r]).quality
    IN  /\ low[r] <= high[r]
        /\ mid = (low[r] + high[r] + 1) \div 2
        /\ low[r] <= mid /\ mid <= high[r]
        /\ i[r] = 0 => (low[r] = 10 /\ high[r] = 100)
        /\ \A j, k \in 1..Len(Probes(r)) :
             j # k => Probes(r)[j] # Probes(r)[k]

ProbeNarrows(r) ==
  (pc[r] = "probe" /\ i'[r] = i[r] + 1) =>
    LET mid == Get(pending[r]).quality
    IN  \/ high'[r] = mid - 1 /\ low'[r] = low[r]
        \/ low'[r] = mid + 1 /\ high'[r] = high[r]

TheoremC28 ==
  /\ [](\A r \in Requests : IterationStart(r))
  /\ [][\A r \in Requests : ProbeNarrows(r)]_vars

\* The sixth iteration starting on a one-quality interval reached by
\* probes that went both ways.
WitnessC28 ==
  \E r \in Requests :
    /\ pc[r] = "probe" /\ i[r] = 5 /\ low[r] = high[r]
    /\ low[r] > 10 /\ high[r] < 100

\* C29: a size-targeted call that returns has made exactly 7 or exactly 8
\* renders: 8 exactly when the best quality after the loop differs from the
\* clamped requested quality, which is exactly when some probe came
\* strictly closer to the target than the initial render did.
SomeProbeCloser(r) ==
  \E k \in 2..7 :
    Abs(SizeAt(r, calls[r][k]) - targetBytes[r])
      < Abs(SizeAt(r, calls[r][1]) - targetBytes[r])

TheoremC29 ==
  \A r \in Requests :
    (SizeTargeted(r) /\ Returned(r)) =>
      /\ Len(calls[r]) \in {7, 8}
      /\ Len(calls[r]) = 8 <=> bestQuality[r] # qualityCap[r]
      /\ Len(calls[r]) = 8 <=> SomeProbeCloser(r)

\* A search that probed the requested quality itself and returned after
\* seven renders, next to probes that were further from the target.
WitnessC29 ==
  \E r \in Requests :
    /\ SizeTargeted(r) /\ Returned(r)
    /\ Len(calls[r]) = 7
    /\ \E k \in 2..7 : calls[r][k] = qualityCap[r]
    /\ \E k \in 2..7 :
         Abs(SizeAt(r, calls[r][k]) - targetBytes[r])
           > Abs(SizeAt(r, calls[r][1]) - targetBytes[r])

\* C30: the probes of a size-targeted search do not depend on the requested
\* quality: the first probe is always 55, and two searches with the same
\* input, format, resize options and target size but different requested
\* qualities probe the same qualities in the same order; the requested
\* quality only supplies the initial render.
SameSearchInputs(r1, r2) ==
  /\ SizeTargeted(r1) /\ SizeTargeted(r2)
  /\ FileOf(r1) = FileOf(r2)
  /\ format[r1] = format[r2]
  /\ targetBytes[r1] = targetBytes[r2]
  /\ [mergedOptions[r1] EXCEPT !.quality = Missing]
       = [mergedOptions[r2] EXCEPT !.quality = Missing]

SameProbes(r1, r2) ==
  \A k \in 1..Len(Probes(r1)) :
    k <= Len(Probes(r2)) => Probes(r1)[k] = Probes(r2)[k]

TheoremC30 ==
  /\ \A r \in Requests :
       (SizeTargeted(r) /\ Len(calls[r]) >= 2) =>
         /\ Probes(r)[1] = 55
         /\ calls[r][1] = qualityCap[r]
  /\ \A r1, r2 \in Requests : SameSearchInputs(r1, r2) => SameProbes(r1, r2)

\* Two searches that differ in the requested quality only, both returned
\* after the same six probes, one of them with a quality above the one it
\* requested.
WitnessC30 ==
  /\ SameSearchInputs(1, 2)
  /\ qualityCap[1] # qualityCap[2]
  /\ Returned(1) /\ Returned(2)
  /\ Len(Probes(1)) = 6 /\ Probes(1) = Probes(2)
  /\ ReturnedPlan(1).output.quality = Val(bestQuality[1])
  /\ bestQuality[1] > qualityCap[1]
====
